---- MODULE Spec2Model ----
(***************************************************************************)
(* Realtime fan-out layer of the social feed (server.js) together with the *)
(* client reconcilers (Feed.tsx, PostItem.tsx) and the like route.         *)
(***************************************************************************)
EXTENDS Integers, Sequences, FiniteSets, TLC

VARIABLES
    connected,   \* sockets registered in the server namespace (OPEN)
    closed,      \* sockets whose "disconnect" has run
    inbox,       \* inbox[c]: client -> server frames in flight, FIFO
    wire,        \* wire[c]: server -> client frames in flight, FIFO
    received,    \* received[c]: envelopes the client's listeners were called with
    emitted,     \* number of client emits so far (ghost, numbers the events)
    last,        \* ghost: the inbound event the server handled last
    dropped,     \* ghost: the inbound events whose handling reached no transport
    posts,       \* posts[c]: the post list of the Feed of client c
    item,        \* item[c]: the state of the PostItem of post ItemPost at client c
    db,          \* ids of the stored posts, newest first
    feed,        \* page, isLoading, hasMore and error of the Feed of the Viewer
    pending,     \* GET /api/posts requests and responses in flight for that Feed
    dbLikes,     \* the stored likes of post ItemPost
    likeReq,     \* likeReq[c]: the PATCH .../like request of client c
    clicks,      \* number of clicks and submits so far
    sid,         \* sid[c]: number of connections client c has opened; the socket
                 \* of c is identified by <<c, sid[c]>>
    missed,      \* ghost: missed[c]: the events the server handled while c was closed
    closes,      \* ghost: closes[c]: the reasons the "disconnect" listener was called with
    calls,       \* the comment, delete and create-post API calls in flight
    users,       \* users[u]: the following and followers lists of the stored user u
    followReq,   \* followReq[c]: the POST .../follow request on connection c
    delReq,      \* delReq[c]: the DELETE /api/posts/[postId] request on connection c
    ctx,         \* ctx[c]: the SocketProvider of client c, the context value of its
                 \* last render and the handlers its Feed and PostItem have attached
    cached,      \* global.mongoose of the server process: conn and promise
    dbCall,      \* dbCall[c]: the dbConnect call of the request on connection c
    sio          \* global.ioInstance of the server process and the last response
                 \* of GET /api/socketio

vars == <<connected, closed, inbox, wire, received, emitted, last, dropped, posts, item,
          db, feed, pending, dbLikes, likeReq, clicks, sid, missed, closes,
          calls, users, followReq, delReq, ctx, cached, dbCall, sio>>

\* the singletons of the server process
procVars == <<cached, dbCall, sio>>

\* the state of the routes, of the provider and of the server process,
\* outside the hub and the lists
outerVars == <<users, followReq, delReq, ctx, procVars>>

feedVars == <<db, feed, pending>>

likeVars == <<dbLikes, likeReq, clicks>>

lifeVars == <<sid, missed, closes>>

hubVars == <<connected, closed, inbox, wire, received, emitted, last, dropped>>

Conns == {"A", "B", "C"}

\* the clients whose user acts; the third one only watches
Emitters == {"A", "B"}

\* bound on the number of client emits in one behaviour
MaxEvents == 2

\* bound on the number of posts ever stored
MaxPosts == 11

\* bound on the pages the Feed asks for
MaxPage == 2

\* bound on the socket events given to the Feed in one behaviour
MaxFeedEvents == 4

\* bound on the clicks and submits in one behaviour
MaxClicks == 2

\* bound on the connections one client opens, and on the database
\* connections the server process attempts
MaxConnections == 2

\* bound on the GET /api/socketio requests in one behaviour
MaxRequests == 3

(***************************************************************************)
(* JavaScript values.  An atom is a scalar or an opaque object; k is its   *)
(* typeof-like kind and s its printed value.                               *)
(***************************************************************************)
Undef == [k |-> "undefined", s |-> ""]
Str(x) == [k |-> "string", s |-> x]
Num(x) == [k |-> "number", s |-> x]
ObjAtom(x) == [k |-> "object", s |-> x]

\* JS truthiness of a scalar / object
Truthy(v) ==
    CASE v.k = "undefined" -> FALSE
      [] v.k = "null" -> FALSE
      [] v.k = "string" -> v.s # ""
      [] v.k = "number" -> v.s # "0"
      [] OTHER -> TRUE

NoList == [k |-> "undefined", a |-> <<>>]
Arr(xs) == [k |-> "array", a |-> xs]
StrList(x) == [k |-> "string", a |-> <<Str(x)>>]

\* Array.isArray
IsArray(l) == l.k = "array"

NoComment == [k |-> "undefined", _id |-> Undef]
Comment(id) == [k |-> "object", _id |-> id]

\* a payload with every property undefined
Empty(kind) ==
    [k |-> kind, msg |-> "", postId |-> Undef, likes |-> NoList,
     _id |-> Undef, author |-> Undef, comment |-> NoComment]

LikeData(pid, ls) == [Empty("object") EXCEPT !.postId = pid, !.likes = ls]
PostData(id, au) == [Empty("object") EXCEPT !._id = id, !.author = au]
CommentData(pid, cm) == [Empty("object") EXCEPT !.postId = pid, !.comment = cm]
DeleteData(pid) == [Empty("object") EXCEPT !.postId = pid]
Text(m) == [Empty("string") EXCEPT !.msg = m]

\* truthiness of the payload value itself (data && ...)
TruthyData(d) ==
    CASE d.k = "undefined" -> FALSE
      [] d.k = "null" -> FALSE
      [] d.k = "string" -> d.msg # ""
      [] OTHER -> TRUE

\* commentData.comment?._id
CommentId(d) == IF d.comment.k \in {"undefined", "null"} THEN Undef ELSE d.comment._id

\* what a client can put on the socket
LikePayloads ==
    { LikeData(Str("p1"), Arr(<<Str("u1"), Str("u2")>>)),
      LikeData(Str("p1"), Arr(<<>>)),
      LikeData(Undef, Arr(<<Str("u1")>>)),
      LikeData(Str("p1"), StrList("u1")),
      LikeData(Str("p1"), NoList),
      LikeData(Num("42"), Arr(<<Str("u1")>>)),
      LikeData(Str("p1"), Arr(<<Num("7"), Str("u1")>>)),
      Empty("null"), Empty("undefined") }

PostPayloads ==
    { PostData(Str("post9"), ObjAtom("u1")),
      PostData(Undef, ObjAtom("u1")),
      PostData(Str("post9"), Undef),
      Empty("null") }

CommentPayloads ==
    { CommentData(Str("p1"), Comment(Str("c1"))),
      CommentData(Str("p1"), Comment(Undef)),
      CommentData(Str("p1"), NoComment),
      CommentData(Undef, Comment(Str("c1"))),
      Empty("undefined") }

DeletePayloads == { DeleteData(Str("p2")), DeleteData(Undef) }

HelloPayloads == { Text("Client connected!") }

\* the well-formed payloads the application's components emit
CorePayloadsOf(name) ==
    CASE name = "like_updated_from_client" ->
            { LikeData(Str("p1"), Arr(<<Str("u1"), Str("u2")>>)) }
      [] name = "new_post_from_client" -> { PostData(Str("post9"), ObjAtom("u1")) }
      [] name = "new_comment_from_client" ->
            { CommentData(Str("p1"), Comment(Str("c1"))) }
      [] name = "delete_post_from_client" -> { DeleteData(Str("p2")) }
      [] OTHER -> HelloPayloads

\* every payload shape a client may put on the socket
PayloadsOf(name) ==
    CASE name = "like_updated_from_client" -> LikePayloads
      [] name = "new_post_from_client" -> PostPayloads
      [] name = "new_comment_from_client" -> CommentPayloads
      [] name = "delete_post_from_client" -> DeletePayloads
      [] OTHER -> HelloPayloads

InboundNames ==
    {"hello", "like_updated_from_client", "new_post_from_client",
     "new_comment_from_client", "delete_post_from_client"}

\* an envelope on a transport; from and n are ghost fields (origin, emit number)
Envelope(name, data, o, n) == [name |-> name, payload |-> data, from |-> o, n |-> n]

NoEvent == [name |-> "none", payload |-> Empty("undefined"), from |-> "none", n |-> 0,
            gone |-> {}]

(***************************************************************************)
(* Server side: socket.emit and socket.broadcast.emit on the namespace.    *)
(***************************************************************************)
\* io.emit in place of socket.emit: every socket of the namespace
socketEmit_toAll(o, name, data, n, w) ==
    [c \in Conns |->
        IF c \in connected THEN Append(w[c], Envelope(name, data, o, n)) ELSE w[c]]

\* socket.emit(name, data): unicast to the socket itself
socketEmit(o, name, data, n, w) ==
    [w EXCEPT ![o] = Append(w[o], Envelope(name, data, o, n))]

\* a broadcast that echoes to the origin as well
broadcastEmit_echo(o, name, data, n, w) ==
    [c \in Conns |->
        IF c \in connected THEN Append(w[c], Envelope(name, data, o, n)) ELSE w[c]]

\* a broadcast that puts the newest frame first
broadcastEmit_lifo(o, name, data, n, w) ==
    [c \in Conns |->
        IF c \in connected /\ c # o
        THEN <<Envelope(name, data, o, n)>> \o w[c]
        ELSE w[c]]

\* a broadcast over every socket ever seen, open or not
broadcastEmit_stale(o, name, data, n, w) ==
    [c \in Conns |->
        IF c # o THEN Append(w[c], Envelope(name, data, o, n)) ELSE w[c]]

\* a broadcast that gives up when a recipient still has frames in flight
broadcastEmit_blocking(o, name, data, n, w) ==
    [c \in Conns |->
        IF c \in connected /\ c # o /\ \A d \in connected \ {o} : w[d] = <<>>
        THEN Append(w[c], Envelope(name, data, o, n))
        ELSE w[c]]

\* a broadcast that reaches sockets whose connection handler has not run
broadcastEmit_early(o, name, data, n, w) ==
    [c \in Conns |->
        IF c \notin closed /\ c # o
        THEN Append(w[c], Envelope(name, data, o, n))
        ELSE w[c]]

\* a broadcast that also buffers for the sockets that have closed
broadcastEmit_buffered(o, name, data, n, w) ==
    [c \in Conns |->
        IF c \in (connected \cup closed) /\ c # o
        THEN Append(w[c], Envelope(name, data, o, n))
        ELSE w[c]]

\* socket.broadcast.emit(name, data): every socket of the namespace but o
broadcastEmit(o, name, data, n, w) ==
    [c \in Conns |->
        IF c \in connected /\ c # o
        THEN Append(w[c], Envelope(name, data, o, n))
        ELSE w[c]]

\* socket.on("hello")
onHello(o, msg, n, w) ==
    socketEmit(o, "helloFromServer",
               Text("Server received your message: " \o msg.msg), n, w)

\* the like listener without the Array.isArray test
onLikeUpdated_unchecked(o, data, n, w) ==
    IF TruthyData(data) /\ Truthy(data.postId)
    THEN broadcastEmit(o, "like_updated", data, n, w)
    ELSE w

\* the like listener asking for a likes list that is not empty
onLikeUpdated_nonEmpty(o, data, n, w) ==
    IF TruthyData(data) /\ Truthy(data.postId) /\ IsArray(data.likes)
         /\ data.likes.a # <<>>
    THEN broadcastEmit(o, "like_updated", data, n, w)
    ELSE w

\* socket.on("like_updated_from_client")
onLikeUpdated(o, data, n, w) ==
    IF TruthyData(data) /\ Truthy(data.postId) /\ IsArray(data.likes)
    THEN broadcastEmit(o, "like_updated", data, n, w)
    ELSE w

\* socket.on("new_post_from_client")
onNewPost(o, postData, n, w) ==
    IF TruthyData(postData) /\ Truthy(postData._id) /\ Truthy(postData.author)
    THEN broadcastEmit(o, "post_created", postData, n, w)
    ELSE w

\* the comment listener relaying under the inbound name
onNewComment_sameName(o, commentData, n, w) ==
    IF TruthyData(commentData) /\ Truthy(commentData.postId)
       /\ Truthy(CommentId(commentData))
    THEN broadcastEmit(o, "new_comment_from_client", commentData, n, w)
    ELSE w

\* socket.on("new_comment_from_client")
onNewComment(o, commentData, n, w) ==
    IF TruthyData(commentData) /\ Truthy(commentData.postId)
       /\ Truthy(CommentId(commentData))
    THEN broadcastEmit(o, "comment_added", commentData, n, w)
    ELSE w

\* the listeners registered in io.on("connection"); an event without a
\* listener is ignored by the socket
dispatch(o, e, w) ==
    CASE e.name = "hello" -> onHello(o, e.payload, e.n, w)
      [] e.name = "like_updated_from_client" -> onLikeUpdated(o, e.payload, e.n, w)
      [] e.name = "new_post_from_client" -> onNewPost(o, e.payload, e.n, w)
      [] e.name = "new_comment_from_client" -> onNewComment(o, e.payload, e.n, w)
      [] OTHER -> w

(***************************************************************************)
(* Client side: the listeners Feed and PostItem attach to the socket.      *)
(***************************************************************************)
\* the post whose PostItem is observed, and session?.user?.id of each client:
\* the third client is not logged in
ItemPost == Str("p1")
UserOf == [c \in Conns |-> CASE c = "A" -> Str("u1") [] c = "B" -> Str("u2") [] OTHER -> Undef]

\* Array.prototype.includes
Includes(xs, x) == \E i \in 1..Len(xs) : xs[i] = x

\* handleNewPost without the test for a post already held
handleNewPost_noDedupe(prevPosts, newPost) == <<newPost>> \o prevPosts

\* Feed: handleNewPost
handleNewPost(prevPosts, newPost) ==
    IF \E i \in 1..Len(prevPosts) : prevPosts[i]._id = newPost._id
    THEN prevPosts
    ELSE <<newPost>> \o prevPosts

\* a delete listener that removes the first post with the id only
handlePostDeleted_first(prevPosts, data) ==
    IF TruthyData(data) /\ Truthy(data.postId)
         /\ \E i \in 1..Len(prevPosts) : prevPosts[i]._id = data.postId
    THEN LET i == CHOOSE i \in 1..Len(prevPosts) :
                     /\ prevPosts[i]._id = data.postId
                     /\ \A j \in 1..(i - 1) : prevPosts[j]._id # data.postId
         IN  SubSeq(prevPosts, 1, i - 1) \o SubSeq(prevPosts, i + 1, Len(prevPosts))
    ELSE prevPosts

\* Feed: handlePostDeleted
handlePostDeleted(prevPosts, data) ==
    IF TruthyData(data) /\ Truthy(data.postId)
    THEN LET keep(post) == post._id # data.postId IN SelectSeq(prevPosts, keep)
    ELSE prevPosts

\* a like listener that counts the events in place of the list
handleLikeUpdate_increment(it, data, currentUserId) ==
    IF data.postId = ItemPost
    THEN [it EXCEPT !.likeCount = @ + 1,
                    !.isLiked = IF Truthy(currentUserId)
                                THEN Includes(data.likes.a, currentUserId)
                                ELSE FALSE]
    ELSE it

\* PostItem: handleLikeUpdate
handleLikeUpdate(it, data, currentUserId) ==
    IF data.postId = ItemPost
    THEN [it EXCEPT !.likeCount = Len(data.likes.a),
                    !.isLiked = IF Truthy(currentUserId)
                                THEN Includes(data.likes.a, currentUserId)
                                ELSE FALSE]
    ELSE it

\* a comment listener without the test of the post id
handleCommentAdded_anyPost(it, data) ==
    [it EXCEPT !.comments =
                   IF \E i \in 1..Len(@) : @[i]._id = data.comment._id
                   THEN @ ELSE <<data.comment>> \o @,
               !.showComments = TRUE]

\* PostItem: handleCommentAdded
handleCommentAdded(it, data) ==
    IF data.postId = ItemPost
    THEN [it EXCEPT !.comments =
                        IF \E i \in 1..Len(@) : @[i]._id = data.comment._id
                        THEN @ ELSE <<data.comment>> \o @,
                    !.showComments = TRUE]
    ELSE it

\* the Feed listeners attached with socket.on
feedOn(e, prevPosts) ==
    CASE e.name = "post_created" -> handleNewPost(prevPosts, e.payload)
      [] e.name = "post_deleted" -> handlePostDeleted(prevPosts, e.payload)
      [] OTHER -> prevPosts

\* the PostItem listeners attached with socket.on
itemOn(e, it, currentUserId) ==
    CASE e.name = "like_updated" -> handleLikeUpdate(it, e.payload, currentUserId)
      [] e.name = "comment_added" -> handleCommentAdded(it, e.payload)
      [] OTHER -> it

\* useState initial values of PostItem for a post without likes and comments;
\* alerts (ghost) counts the alert() dialogs its handlers have opened
NewItem ==
    [likeCount |-> 0, isLiked |-> FALSE, isLoadingLike |-> FALSE,
     comments |-> <<>>, showComments |-> FALSE, alerts |-> 0]

(***************************************************************************)
(* The Feed and GET /api/posts.                                            *)
(***************************************************************************)
\* const limit = 10
limit == 10

\* the client whose Feed is observed
Viewer == "B"

\* useState initial values of Feed
NewFeed == [page |-> 1, isLoading |-> TRUE, hasMore |-> TRUE, error |-> FALSE]

\* the id of the i-th post ever stored, and the post as the API returns it
PostId(i) == Str("p" \o ToString(i))
Populated(id) == PostData(id, ObjAtom("u1"))

\* the newest n posts, newest first
RECURSIVE Newest(_)
Newest(n) == IF n = 0 THEN <<>> ELSE <<PostId(n)>> \o Newest(n - 1)

Min(a, b) == IF a < b THEN a ELSE b

\* Post.find({}).sort({createdAt: -1}).skip(skip).limit(limit)
FindPage(posted, pageNum) ==
    LET skip == (pageNum - 1) * limit
        page == SubSeq(posted, skip + 1, Min(skip + limit, Len(posted)))
    IN  [i \in 1..Len(page) |-> Populated(page[i])]

\* setPosts in fetchPosts
mergePage(prevPosts, newPosts, loadMore) ==
    IF loadMore THEN prevPosts \o newPosts ELSE newPosts

(***************************************************************************)
(* PATCH /api/posts/[postId]/like                                          *)
(***************************************************************************)
\* userId is the token.id the route reads from the request; id (ghost) is
\* the number of the click or request
NoRequest ==
    [stage |-> "idle", hasLiked |-> FALSE, ok |-> FALSE, likes |-> <<>>,
     isConnected |-> FALSE, userId |-> Undef, id |-> 0]

\* { $pull: { likes: userId } }
Pull(likes, userId) == LET keep(x) == x # userId IN SelectSeq(likes, keep)

\* { $addToSet: { likes: userId } }
AddToSet(likes, userId) == IF Includes(likes, userId) THEN likes ELSE Append(likes, userId)

\* updateOperation
UpdateLikes(likes, userId, hasLiked) ==
    IF hasLiked THEN Pull(likes, userId) ELSE AddToSet(likes, userId)

(***************************************************************************)
(* POST /api/users/[username]/follow                                       *)
(***************************************************************************)
\* the stored users, named by their _id
Sessions == {Str("u1"), Str("u2")}

NoFollow ==
    [stage |-> "idle", userId |-> Undef, target |-> Undef, isFollowing |-> FALSE,
     current |-> FALSE, other |-> FALSE, status |-> 0]

(***************************************************************************)
(* SocketProvider and the listener effects of Feed and PostItem            *)
(***************************************************************************)
\* the events Feed and PostItem attach a handler for
ListenerEvents == {"post_created", "post_deleted", "like_updated", "comment_added"}

\* the provider at its first render: socketRef.current is null (socketRef
\* FALSE), isConnected is false, the context value holds both, and no
\* handler is attached; hellos (ghost) counts the hello emits
NewProvider ==
    [socketRef |-> FALSE, isConnected |-> FALSE,
     value |-> [socket |-> FALSE, isConnected |-> FALSE],
     handlers |-> [e \in ListenerEvents |-> 0], hellos |-> 0]

\* a listener effect whose cleanup does not call socket.off
listenersEffect_noCleanup(n, old, new) ==
    n + (IF new.socket /\ new.isConnected THEN 1 ELSE 0)

\* useEffect(..., [socket, isConnected]) of Feed and PostItem on a render
\* with a new context value: the cleanup of the last run calls socket.off
\* for the handler it attached, and the new run calls socket.on unless
\* !socket || !isConnected; n is the number of handlers attached
listenersEffect(n, old, new) ==
    (IF old.socket /\ old.isConnected THEN n - 1 ELSE n)
      + (IF new.socket /\ new.isConnected THEN 1 ELSE 0)

(***************************************************************************)
(* dbConnect and GET /api/socketio: the singletons of the server process   *)
(***************************************************************************)
\* cached = { conn: null, promise: null }; made and failed (ghost) count the
\* mongoose.connect calls and the ones that were rejected
NoCache == [conn |-> FALSE, promise |-> "null", made |-> 0, failed |-> 0]

\* a request that has not called dbConnect; attempt is the number of the
\* mongoose.connect call whose promise the call awaits
NoCall == [stage |-> "idle", attempt |-> 0]

\* global.ioInstance is unset; created (ghost) counts the new SocketIOServer
\* calls, status is the last response, seen (ghost) the statuses answered
\* so far, requests the number of requests
NoSocketio ==
    [ioInstance |-> 0, created |-> 0, status |-> 0, seen |-> {}, requests |-> 0]

(***************************************************************************)
(* DELETE /api/posts/[postId]                                              *)
(***************************************************************************)
NoDelete == [stage |-> "idle", userId |-> Undef, postId |-> Undef, status |-> 0]

\* the author reference stored with a post, as post.author.toString() gives it
AuthorOf(id) == Str(Populated(id).author.s)

\* mongoose.Types.ObjectId.isValid on a route parameter: the ids of the
\* model stand for 24-digit hexadecimal strings
IsValidObjectId(id) == id.k = "string" /\ \E i \in 1..(MaxPosts + 2) : id = PostId(i)

\* the users as registration stores them, and no request in flight
InitRoutes ==
    /\ users = [u \in Sessions |-> [following |-> <<>>, followers |-> <<>>]]
    /\ followReq = [c \in Conns |-> NoFollow]
    /\ delReq = [c \in Conns |-> NoDelete]
    /\ ctx = [c \in Conns |-> NewProvider]
    /\ cached = NoCache
    /\ dbCall = [c \in Conns |-> NoCall]
    /\ sio = NoSocketio

(***************************************************************************)
(* Actions                                                                 *)
(***************************************************************************)
Init ==
    /\ connected = {}
    /\ closed = {}
    /\ inbox = [c \in Conns |-> <<>>]
    /\ wire = [c \in Conns |-> <<>>]
    /\ received = [c \in Conns |-> <<>>]
    /\ emitted = 0
    /\ last = NoEvent
    /\ dropped = {}
    /\ posts = [c \in Conns |-> <<>>]
    /\ item = [c \in Conns |-> NewItem]
    /\ db = <<>>
    /\ feed = NewFeed
    /\ pending = {}
    /\ dbLikes = <<>>
    /\ likeReq = [c \in Conns |-> NoRequest]
    /\ clicks = 0
    /\ sid = [c \in Conns |-> IF c \in connected THEN 1 ELSE 0]
    /\ missed = [c \in Conns |-> {}]
    /\ closes = [c \in Conns |-> <<>>]
    /\ calls = {}
    /\ InitRoutes

\* io.on("connection"): the socket joins the namespace
Connect(c) ==
    /\ c \notin connected
    /\ c \notin closed
    /\ connected' = connected \cup {c}
    /\ sid' = [sid EXCEPT ![c] = @ + 1]
    /\ UNCHANGED <<outerVars, closed, inbox, wire, received, emitted, last, dropped, posts, item,
                   feedVars, likeVars, missed, closes, calls>>

\* the reasons a Socket.IO server gives its "disconnect" listener: the client
\* called disconnect(), the server closed the socket, the transport failed
CloseReasons ==
    {"client namespace disconnect", "server namespace disconnect", "transport error"}

\* a close whose listener also runs for a socket that has closed already
Close_twice(c, reason) ==
    /\ c \in (connected \cup closed)
    /\ connected' = connected \ {c}
    /\ closed' = closed \cup {c}
    /\ inbox' = [inbox EXCEPT ![c] = <<>>]
    /\ wire' = [wire EXCEPT ![c] = <<>>]
    /\ closes' = [closes EXCEPT ![c] = Append(@, reason)]
    /\ UNCHANGED <<outerVars, received, emitted, last, dropped, posts, item, feedVars, likeVars,
                   sid, missed, calls>>

\* the transport of c closes: the socket leaves the namespace, the frames in
\* flight are lost and socket.on("disconnect") runs with the reason
Close(c, reason) ==
    /\ c \in connected
    /\ connected' = connected \ {c}
    /\ closed' = closed \cup {c}
    /\ inbox' = [inbox EXCEPT ![c] = <<>>]
    /\ wire' = [wire EXCEPT ![c] = <<>>]
    /\ closes' = [closes EXCEPT ![c] = Append(@, reason)]
    /\ UNCHANGED <<outerVars, received, emitted, last, dropped, posts, item, feedVars, likeVars,
                   sid, missed, calls>>

\* transport close
Disconnect(c) == Close(c, "transport close")

\* socket.io-client reconnects: the server sees a new socket with a new id
Reconnect(c) ==
    /\ c \in closed
    /\ sid[c] < MaxConnections
    /\ connected' = connected \cup {c}
    /\ closed' = closed \ {c}
    /\ sid' = [sid EXCEPT ![c] = @ + 1]
    /\ UNCHANGED <<outerVars, inbox, wire, received, emitted, last, dropped, posts, item,
                   feedVars, likeVars, missed, closes, calls>>

\* socket.emit(name, data) on a connected client
ClientEmit(c, name, data) ==
    /\ c \in connected
    /\ emitted < MaxEvents
    /\ emitted' = emitted + 1
    /\ inbox' = [inbox EXCEPT ![c] = Append(@, Envelope(name, data, c, emitted + 1))]
    /\ UNCHANGED <<outerVars, connected, closed, wire, received, last, dropped, posts, item, feedVars, likeVars, lifeVars, calls>>

\* the server takes the next frame of c and runs the listener to completion
ServerHandle(c) ==
    /\ c \in connected
    /\ inbox[c] # <<>>
    /\ LET e == Head(inbox[c]) IN
         /\ wire' = dispatch(c, e, wire)
         /\ last' = [name |-> e.name, payload |-> e.payload, from |-> c, n |-> e.n,
                     gone |-> closed]
         /\ dropped' = IF dispatch(c, e, wire) = wire THEN dropped \cup {e} ELSE dropped
    /\ inbox' = [inbox EXCEPT ![c] = Tail(@)]
    /\ missed' = [d \in Conns |->
                     IF d \in closed THEN missed[d] \cup {Head(inbox[c]).n} ELSE missed[d]]
    /\ UNCHANGED <<outerVars, connected, closed, received, emitted, posts, item, feedVars, likeVars,
                   sid, closes, calls>>

\* the client takes the next frame off its transport and calls its listeners
ClientReceive(c) ==
    /\ c \in connected
    /\ wire[c] # <<>>
    /\ received' = [received EXCEPT ![c] = Append(@, Head(wire[c]))]
    /\ posts' = [posts EXCEPT ![c] = feedOn(Head(wire[c]), @)]
    /\ item' = [item EXCEPT ![c] = itemOn(Head(wire[c]), @, UserOf[c])]
    /\ wire' = [wire EXCEPT ![c] = Tail(@)]
    /\ UNCHANGED <<outerVars, connected, closed, inbox, emitted, last, dropped, feedVars, likeVars, lifeVars, calls>>

Next ==
    \/ \E c \in Conns : Connect(c)
    \/ \E c \in Conns : Disconnect(c)
    \/ \E c \in Emitters, name \in InboundNames :
          \E data \in CorePayloadsOf(name) : ClientEmit(c, name, data)
    \/ \E c \in Conns : ServerHandle(c)
    \/ \E c \in Conns : ClientReceive(c)

Spec == Init /\ [][Next]_vars

(***************************************************************************)
(* The event router under every payload shape: three open sockets, the     *)
(* frames of one of them carry arbitrary payloads.                         *)
(***************************************************************************)
Sender == "A"

InitRouter ==
    /\ connected = Conns
    /\ closed = {}
    /\ inbox = [c \in Conns |-> <<>>]
    /\ wire = [c \in Conns |-> <<>>]
    /\ received = [c \in Conns |-> <<>>]
    /\ emitted = 0
    /\ last = NoEvent
    /\ dropped = {}
    /\ posts = [c \in Conns |-> <<>>]
    /\ item = [c \in Conns |-> NewItem]
    /\ db = <<>>
    /\ feed = NewFeed
    /\ pending = {}
    /\ dbLikes = <<>>
    /\ likeReq = [c \in Conns |-> NoRequest]
    /\ clicks = 0
    /\ sid = [c \in Conns |-> IF c \in connected THEN 1 ELSE 0]
    /\ missed = [c \in Conns |-> {}]
    /\ closes = [c \in Conns |-> <<>>]
    /\ calls = {}
    /\ InitRoutes

NextRouter ==
    \/ \E name \in InboundNames :
          \E data \in PayloadsOf(name) : ClientEmit(Sender, name, data)
    \/ \E c \in Conns : ServerHandle(c)
    \/ \E c \in Conns : ClientReceive(c)

SpecRouter == InitRouter /\ [][NextRouter]_vars

(***************************************************************************)
(* Connection lifecycle: three clients whose transports close for any      *)
(* reason and whose socket.io-client reconnects, while one of them emits.  *)
(***************************************************************************)
InitLifecycle ==
    /\ connected = Conns
    /\ closed = {}
    /\ inbox = [c \in Conns |-> <<>>]
    /\ wire = [c \in Conns |-> <<>>]
    /\ received = [c \in Conns |-> <<>>]
    /\ emitted = 0
    /\ last = NoEvent
    /\ dropped = {}
    /\ posts = [c \in Conns |-> <<>>]
    /\ item = [c \in Conns |-> NewItem]
    /\ db = <<>>
    /\ feed = NewFeed
    /\ pending = {}
    /\ dbLikes = <<>>
    /\ likeReq = [c \in Conns |-> NoRequest]
    /\ clicks = 0
    /\ sid = [c \in Conns |-> 1]
    /\ missed = [c \in Conns |-> {}]
    /\ closes = [c \in Conns |-> <<>>]
    /\ calls = {}
    /\ InitRoutes

NextLifecycle ==
    \/ \E c \in Conns : Disconnect(c)
    \/ \E c \in Conns : Reconnect(c)
    \/ \E name \in {"like_updated_from_client", "new_comment_from_client"} :
          \E data \in CorePayloadsOf(name) : ClientEmit(Sender, name, data)
    \/ \E c \in Conns : ServerHandle(c)
    \/ \E c \in Conns : ClientReceive(c)

SpecLifecycle == InitLifecycle /\ [][NextLifecycle]_vars

(***************************************************************************)
(* Registration and removal alone: clients connect, their transports close *)
(* for each of the reasons, and they reconnect.                            *)
(***************************************************************************)
NextClose ==
    \/ \E c \in Conns : Connect(c)
    \/ \E c \in Conns, reason \in CloseReasons : Close(c, reason)
    \/ \E c \in Conns : Reconnect(c)

SpecClose == Init /\ [][NextClose]_vars

(***************************************************************************)
(* The Feed of one client: its fetches against the stored posts, and the   *)
(* socket events its listeners are called with.                            *)
(***************************************************************************)
\* Feed mounts: useState initial values and the effect that calls fetchPosts(1)
InitFeed ==
    /\ connected = Conns
    /\ closed = {}
    /\ inbox = [c \in Conns |-> <<>>]
    /\ wire = [c \in Conns |-> <<>>]
    /\ received = [c \in Conns |-> <<>>]
    /\ emitted = 0
    /\ last = NoEvent
    /\ dropped = {}
    /\ posts = [c \in Conns |-> <<>>]
    /\ item = [c \in Conns |-> NewItem]
    /\ db \in {Newest(limit), Newest(limit + 1)}
    /\ feed = NewFeed
    /\ pending = {[pageNum |-> 1, loadMore |-> FALSE, done |-> FALSE, ok |-> FALSE,
                    data |-> <<>>]}
    /\ dbLikes = <<>>
    /\ likeReq = [c \in Conns |-> NoRequest]
    /\ clicks = 0
    /\ sid = [c \in Conns |-> IF c \in connected THEN 1 ELSE 0]
    /\ missed = [c \in Conns |-> {}]
    /\ closes = [c \in Conns |-> <<>>]
    /\ calls = {}
    /\ InitRoutes

\* GET /api/posts: the server reads one page and answers
ApiGetPosts(r) ==
    /\ r \in pending
    /\ ~r.done
    /\ pending' = (pending \ {r}) \cup
                     {[r EXCEPT !.done = TRUE, !.ok = TRUE, !.data = FindPage(db, r.pageNum)]}
    /\ UNCHANGED <<outerVars, hubVars, posts, item, db, feed, likeVars, lifeVars, calls>>

\* GET /api/posts fails: the catch branch answers 500
ApiGetPostsError(r) ==
    /\ r \in pending
    /\ ~r.done
    /\ pending' = (pending \ {r}) \cup {[r EXCEPT !.done = TRUE, !.ok = FALSE]}
    /\ UNCHANGED <<outerVars, hubVars, posts, item, db, feed, likeVars, lifeVars, calls>>

\* fetchPosts after the await: the response is applied
FetchDone(r) ==
    /\ r \in pending
    /\ r.done
    /\ pending' = pending \ {r}
    /\ IF r.ok
       THEN /\ posts' = [posts EXCEPT ![Viewer] = mergePage(@, r.data, r.loadMore)]
            /\ feed' = [feed EXCEPT !.hasMore = (Len(r.data) = limit),
                                     !.error = FALSE,
                                     !.isLoading = IF r.loadMore THEN @ ELSE FALSE]
       ELSE /\ posts' = posts
            /\ feed' = [feed EXCEPT !.hasMore = FALSE,
                                     !.error = TRUE,
                                     !.isLoading = IF r.loadMore THEN @ ELSE FALSE]
    /\ UNCHANGED <<outerVars, hubVars, item, db, likeVars, lifeVars, calls>>

\* the Load More button: loadMorePosts
LoadMore ==
    /\ ~(feed.isLoading /\ feed.page = 1)
    /\ posts[Viewer] # <<>>
    /\ feed.hasMore
    /\ feed.page < MaxPage
    /\ feed' = [feed EXCEPT !.page = @ + 1, !.error = FALSE]
    /\ pending' = pending \cup {[pageNum |-> feed.page + 1, loadMore |-> TRUE,
                                  done |-> FALSE, ok |-> FALSE, data |-> <<>>]}
    /\ UNCHANGED <<outerVars, hubVars, posts, item, db, likeVars, lifeVars, calls>>

\* refreshFeed changes the key of Feed: a new Feed mounts and fetches page 1
Remount ==
    /\ posts' = [posts EXCEPT ![Viewer] = <<>>]
    /\ feed' = NewFeed
    /\ pending' = {[pageNum |-> 1, loadMore |-> FALSE, done |-> FALSE, ok |-> FALSE,
                     data |-> <<>>]}
    /\ UNCHANGED <<outerVars, hubVars, item, db, likeVars, lifeVars, calls>>

\* another user's POST /api/posts stores a post
StorePost ==
    /\ Len(db) < MaxPosts
    /\ db' = <<PostId(Len(db) + 1)>> \o db
    /\ UNCHANGED <<outerVars, hubVars, posts, item, feed, pending, likeVars, lifeVars, calls>>

\* the socket calls the listeners of the Feed and of the PostItem
SocketEvent(name, data) ==
    /\ Viewer \in connected
    /\ Len(received[Viewer]) < MaxFeedEvents
    /\ LET e == Envelope(name, data, "A", 0) IN
         /\ received' = [received EXCEPT ![Viewer] = Append(@, e)]
         /\ posts' = [posts EXCEPT ![Viewer] = feedOn(e, @)]
         /\ item' = [item EXCEPT ![Viewer] = itemOn(e, @, UserOf[Viewer])]
    /\ UNCHANGED <<outerVars, connected, closed, inbox, wire, emitted, last, dropped, feedVars, likeVars, lifeVars, calls>>

\* the frames a server can send about the stored posts
FeedFrames ==
    {[name |-> "post_created", data |-> Populated(db[1])],
     [name |-> "post_deleted", data |-> DeleteData(db[Len(db)])],
     [name |-> "comment_added", data |-> CommentData(ItemPost, Comment(Str("c1")))]}

NextFeed ==
    \/ \E r \in pending : ApiGetPosts(r)
    \/ \E r \in pending : ApiGetPostsError(r)
    \/ \E r \in pending : FetchDone(r)
    \/ LoadMore
    \/ Remount
    \/ StorePost
    \/ \E f \in FeedFrames : SocketEvent(f.name, f.data)

SpecFeed == InitFeed /\ [][NextFeed]_vars

(***************************************************************************)
(* The PostItem of ItemPost and the CreatePostForm of a client.            *)
(***************************************************************************)
\* the Feed of c renders the PostItem of ItemPost
Mounted(c) == \E i \in 1..Len(posts[c]) : posts[c][i]._id = ItemPost

\* const isAuthor = post.author?._id === currentUserId
isAuthor(c) == Populated(ItemPost).author.s = UserOf[c].s

\* a handler up to its await: the call is sent, and the handler keeps the
\* isConnected of the render it was created in
StartCall(c, kind) ==
    /\ clicks < MaxClicks
    /\ \A call \in calls : ~(call.client = c /\ call.kind = kind)
    /\ clicks' = clicks + 1
    /\ calls' = calls \cup {[client |-> c, kind |-> kind, id |-> clicks + 1,
                              stage |-> "sent", ok |-> FALSE,
                              isConnected |-> c \in connected]}
    /\ UNCHANGED <<outerVars, hubVars, posts, item, feedVars, dbLikes, likeReq, lifeVars>>

\* handleCommentSubmit up to the await
CommentSubmit(c) == Mounted(c) /\ Truthy(UserOf[c]) /\ StartCall(c, "comment")

\* handleDeleteClick up to the await
DeleteClick(c) == Mounted(c) /\ isAuthor(c) /\ StartCall(c, "delete")

\* CreatePostForm: handleSubmit up to the await of the post creation
PostSubmit(c) == StartCall(c, "post")

\* the route answers the call: success (the post or comment is stored, the
\* post is deleted) or success: false / an error status
ApiAnswer(call, ok) ==
    /\ call \in calls
    /\ call.stage = "sent"
    /\ (ok /\ call.kind \in {"comment", "delete"}) => Includes(db, ItemPost)
    /\ calls' = (calls \ {call}) \cup {[call EXCEPT !.stage = "done", !.ok = ok]}
    /\ db' = CASE ok /\ call.kind = "post" -> <<PostId(call.id + 1)>> \o db
                [] ok /\ call.kind = "delete" ->
                     LET keep(id) == id # ItemPost IN SelectSeq(db, keep)
                [] OTHER -> db
    /\ UNCHANGED <<outerVars, hubVars, posts, item, feed, pending, likeVars, lifeVars>>

\* socket.emit under if (socket && isConnected)
EmitIf(isConnected, c, name, data) ==
    IF isConnected
    THEN /\ emitted' = emitted + 1
         /\ inbox' = [inbox EXCEPT ![c] = Append(@, Envelope(name, data, c, emitted + 1))]
    ELSE UNCHANGED <<emitted, inbox>>

\* refreshFeed of the page of c: the Feed is mounted anew
RefreshFeed(c) ==
    /\ posts' = [posts EXCEPT ![c] = <<>>]
    /\ feed' = IF c = Viewer THEN NewFeed ELSE feed
    /\ pending' = IF c = Viewer
                   THEN {[pageNum |-> 1, loadMore |-> FALSE, done |-> FALSE, ok |-> FALSE,
                          data |-> <<>>]}
                   ELSE pending

\* a comment handler that emits whatever the route answered
CommentResponse_always(call) ==
    /\ call \in calls
    /\ call.kind = "comment"
    /\ call.stage = "done"
    /\ calls' = calls \ {call}
    /\ LET newComment == Comment(Str("c" \o ToString(call.id))) IN
         /\ item' = IF call.ok
                    THEN [item EXCEPT ![call.client].comments = <<newComment>> \o @,
                                      ![call.client].showComments = TRUE]
                    ELSE item
         /\ EmitIf(call.isConnected, call.client, "new_comment_from_client",
                   CommentData(ItemPost, newComment))
    /\ UNCHANGED <<outerVars, connected, closed, wire, received, last, dropped, posts, feedVars,
                   likeVars, lifeVars>>

\* handleCommentSubmit after the await
CommentResponse(call) ==
    /\ call \in calls
    /\ call.kind = "comment"
    /\ call.stage = "done"
    /\ calls' = calls \ {call}
    /\ LET newComment == Comment(Str("c" \o ToString(call.id))) IN
         IF call.ok
         THEN /\ item' = [item EXCEPT ![call.client].comments = <<newComment>> \o @,
                                      ![call.client].showComments = TRUE]
              /\ EmitIf(call.isConnected, call.client, "new_comment_from_client",
                        CommentData(ItemPost, newComment))
         ELSE UNCHANGED <<item, emitted, inbox>>
    /\ UNCHANGED <<outerVars, connected, closed, wire, received, last, dropped, posts, feedVars,
                   likeVars, lifeVars>>

\* the onPostDeleted prop of PostItem: Feed passes its refreshFeed prop on, and
\* HomePage renders <Feed key={feedKey} /> without that prop
onPostDeleted == Undef

\* handleDeleteClick after the await: emit, then onPostDeleted(); calling a
\* value that is not a function throws a TypeError inside the try, and the
\* catch branch, like the success: false branch, opens an alert
DeleteResponse(call) ==
    /\ call \in calls
    /\ call.kind = "delete"
    /\ call.stage = "done"
    /\ calls' = calls \ {call}
    /\ IF call.ok
       THEN /\ EmitIf(call.isConnected, call.client, "delete_post_from_client",
                      DeleteData(ItemPost))
            /\ IF onPostDeleted.k = "function"
               THEN RefreshFeed(call.client) /\ item' = item
               ELSE /\ item' = [item EXCEPT ![call.client].alerts = @ + 1]
                    /\ UNCHANGED <<posts, feed, pending>>
       ELSE /\ item' = [item EXCEPT ![call.client].alerts = @ + 1]
            /\ UNCHANGED <<emitted, inbox, posts, feed, pending>>
    /\ UNCHANGED <<outerVars, connected, closed, wire, received, last, dropped, db,
                   likeVars, lifeVars>>

\* CreatePostForm: handleSubmit after the await
PostResponse(call) ==
    /\ call \in calls
    /\ call.kind = "post"
    /\ call.stage = "done"
    /\ calls' = calls \ {call}
    /\ IF call.ok
       THEN /\ RefreshFeed(call.client)
            /\ EmitIf(call.isConnected, call.client, "new_post_from_client",
                      Populated(PostId(call.id + 1)))
       ELSE UNCHANGED <<emitted, inbox, posts, feed, pending>>
    /\ UNCHANGED <<outerVars, connected, closed, wire, received, last, dropped, item, db,
                   likeVars, lifeVars>>

(***************************************************************************)
(* The PostItem of ItemPost at the Viewer under the like and comment       *)
(* frames a server can relay, about this post and about another one.       *)
(***************************************************************************)
ItemFrames ==
    {[name |-> "like_updated", data |-> LikeData(ItemPost, Arr(<<UserOf[Viewer]>>))],
     [name |-> "like_updated", data |-> LikeData(ItemPost, Arr(<<Str("u1"), Str("u3")>>))],
     [name |-> "like_updated", data |-> LikeData(ItemPost, Arr(<<>>))],
     [name |-> "like_updated",
      data |-> LikeData(Str("p2"), Arr(<<Str("u1"), UserOf[Viewer], Str("u3")>>))],
     [name |-> "comment_added", data |-> CommentData(ItemPost, Comment(Str("c1")))],
     [name |-> "comment_added", data |-> CommentData(Str("p2"), Comment(Str("c2")))]}

NextItem == \E f \in ItemFrames : SocketEvent(f.name, f.data)

(***************************************************************************)
(* Like toggles: handleLikeClick, the like route and the relay, with every *)
(* client connected.                                                       *)
(***************************************************************************)
\* a like handler that does not test isLoadingLike
LikeClick_whileLoading(c) ==
    /\ clicks < MaxClicks
    /\ Mounted(c)
    /\ Truthy(UserOf[c])
    /\ clicks' = clicks + 1
    /\ item' = [item EXCEPT ![c].isLoadingLike = TRUE]
    /\ likeReq' = [likeReq EXCEPT ![c] = [NoRequest EXCEPT !.stage = "sent",
                                                          !.isConnected = c \in connected,
                                                          !.userId = UserOf[c],
                                                          !.id = clicks + 1]]
    /\ UNCHANGED <<outerVars, hubVars, posts, feedVars, dbLikes, lifeVars, calls>>

\* handleLikeClick up to the await; the handler keeps the isConnected of the
\* render it was created in
LikeClick(c) ==
    /\ clicks < MaxClicks
    /\ Mounted(c)
    /\ Truthy(UserOf[c])
    /\ ~item[c].isLoadingLike
    /\ clicks' = clicks + 1
    /\ item' = [item EXCEPT ![c].isLoadingLike = TRUE]
    /\ likeReq' = [likeReq EXCEPT ![c] = [NoRequest EXCEPT !.stage = "sent",
                                                          !.isConnected = c \in connected,
                                                          !.userId = UserOf[c],
                                                          !.id = clicks + 1]]
    /\ UNCHANGED <<outerVars, hubVars, posts, feedVars, dbLikes, lifeVars, calls>>

\* PATCH: Post.findById and hasLiked
PatchFind(c) ==
    /\ likeReq[c].stage = "sent"
    /\ likeReq' = [likeReq EXCEPT ![c].stage = "found",
                                   ![c].hasLiked = Includes(dbLikes, likeReq[c].userId)]
    /\ UNCHANGED <<outerVars, hubVars, posts, item, feedVars, dbLikes, clicks, lifeVars, calls>>

\* PATCH: Post.findByIdAndUpdate and the 200 response
PatchUpdate(c) ==
    /\ likeReq[c].stage = "found"
    /\ dbLikes' = UpdateLikes(dbLikes, likeReq[c].userId, likeReq[c].hasLiked)
    /\ likeReq' = [likeReq EXCEPT ![c].stage = "done", ![c].ok = TRUE,
                                   ![c].likes = dbLikes']
    /\ UNCHANGED <<outerVars, hubVars, posts, item, feedVars, clicks, lifeVars, calls>>

\* PATCH: the catch branch answers 500
PatchError(c) ==
    /\ likeReq[c].stage \in {"sent", "found"}
    /\ likeReq' = [likeReq EXCEPT ![c].stage = "done", ![c].ok = FALSE]
    /\ UNCHANGED <<outerVars, hubVars, posts, item, feedVars, dbLikes, clicks, lifeVars, calls>>

\* handleLikeClick after the await: local update, emit, finally.  An emit
\* on a socket that has closed goes to the send buffer of socket.io-client.
LikeResponse(c) ==
    /\ likeReq[c].stage = "done"
    /\ likeReq' = [likeReq EXCEPT ![c] = NoRequest]
    /\ IF likeReq[c].ok
       THEN /\ item' = [item EXCEPT
                          ![c].likeCount = Len(likeReq[c].likes),
                          ![c].isLiked = IF Truthy(UserOf[c])
                                         THEN Includes(likeReq[c].likes, UserOf[c])
                                         ELSE FALSE,
                          ![c].isLoadingLike = FALSE]
            /\ IF likeReq[c].isConnected
               THEN /\ emitted' = emitted + 1
                    /\ inbox' = [inbox EXCEPT ![c] =
                          Append(@, Envelope("like_updated_from_client",
                                             LikeData(ItemPost, Arr(likeReq[c].likes)),
                                             c, emitted + 1))]
               ELSE UNCHANGED <<emitted, inbox>>
       ELSE /\ item' = [item EXCEPT ![c].isLoadingLike = FALSE]
            /\ UNCHANGED <<emitted, inbox>>
    /\ UNCHANGED <<outerVars, connected, closed, wire, received, last, dropped, posts, feedVars,
                   dbLikes, clicks, lifeVars, calls>>

InitLike ==
    /\ connected = Conns
    /\ closed = {}
    /\ inbox = [c \in Conns |-> <<>>]
    /\ wire = [c \in Conns |-> <<>>]
    /\ received = [c \in Conns |-> <<>>]
    /\ emitted = 0
    /\ last = NoEvent
    /\ dropped = {}
    /\ posts = [c \in Conns |-> <<Populated(ItemPost)>>]
    /\ item = [c \in Conns |-> NewItem]
    /\ db = <<ItemPost>>
    /\ feed = [NewFeed EXCEPT !.isLoading = FALSE, !.hasMore = FALSE]
    /\ pending = {}
    /\ dbLikes = <<>>
    /\ likeReq = [c \in Conns |-> NoRequest]
    /\ clicks = 0
    /\ sid = [c \in Conns |-> IF c \in connected THEN 1 ELSE 0]
    /\ missed = [c \in Conns |-> {}]
    /\ closes = [c \in Conns |-> <<>>]
    /\ calls = {}
    /\ InitRoutes

NextLike ==
    \/ \E c \in Conns : LikeClick(c)
    \/ \E c \in Conns : PatchFind(c)
    \/ \E c \in Conns : PatchUpdate(c)
    \/ \E c \in Conns : PatchError(c)
    \/ \E c \in Conns : LikeResponse(c)
    \/ \E c \in Conns : ServerHandle(c)
    \/ \E c \in Conns : ClientReceive(c)

SpecLike == InitLike /\ [][NextLike]_vars

(***************************************************************************)
(* The like route alone: PATCH requests of any session on any connection,  *)
(* interleaved at the awaits of the route.                                 *)
(***************************************************************************)
\* a PATCH request with the token of userId arrives on connection c
PatchRequest(c, userId) ==
    /\ clicks < MaxClicks
    /\ likeReq[c].stage \in {"idle", "done"}
    /\ clicks' = clicks + 1
    /\ likeReq' = [likeReq EXCEPT ![c] = [NoRequest EXCEPT !.stage = "sent",
                                                          !.userId = userId,
                                                          !.id = clicks + 1]]
    /\ UNCHANGED <<outerVars, hubVars, posts, item, feedVars, dbLikes, lifeVars, calls>>

NextPatch ==
    \/ \E c \in Conns, userId \in Sessions : PatchRequest(c, userId)
    \/ \E c \in Conns : PatchFind(c)
    \/ \E c \in Conns : PatchUpdate(c)
    \/ \E c \in Conns : PatchError(c)

SpecPatch == InitLike /\ [][NextPatch]_vars

(***************************************************************************)
(* The follow route: POST requests of any session for any stored user,     *)
(* interleaved at the awaits of the route.                                 *)
(***************************************************************************)
otherVars ==
    <<hubVars, posts, item, feedVars, dbLikes, likeReq, lifeVars, calls, delReq, ctx,
      procVars>>

\* a POST request with the token of userId for the user target arrives
FollowRequest(c, userId, target) ==
    /\ clicks < MaxClicks
    /\ followReq[c].stage \in {"idle", "done"}
    /\ clicks' = clicks + 1
    /\ followReq' = [followReq EXCEPT ![c] = [NoFollow EXCEPT !.stage = "sent",
                                                            !.userId = userId,
                                                            !.target = target]]
    /\ UNCHANGED <<otherVars, users>>

\* POST: User.findOne, the self-follow test, User.findById and isFollowing
FollowFind(c) ==
    /\ followReq[c].stage = "sent"
    /\ followReq' =
          IF followReq[c].target = followReq[c].userId
          THEN [followReq EXCEPT ![c].stage = "done", ![c].status = 400]
          ELSE [followReq EXCEPT ![c].stage = "found",
                                 ![c].isFollowing =
                                     Includes(users[followReq[c].userId].following,
                                              followReq[c].target)]
    /\ UNCHANGED <<otherVars, users, clicks>>

\* the request is answered with 200 once both updates of Promise.all are done
Settle(r) == IF r.current /\ r.other THEN [r EXCEPT !.stage = "done", !.status = 200] ELSE r

\* POST: updateCurrentUser, the findByIdAndUpdate of the following list
FollowUpdateCurrent(c) ==
    /\ followReq[c].stage = "found"
    /\ ~followReq[c].current
    /\ users' = [users EXCEPT ![followReq[c].userId].following =
                     UpdateLikes(@, followReq[c].target, followReq[c].isFollowing)]
    /\ followReq' = [followReq EXCEPT ![c] = Settle([@ EXCEPT !.current = TRUE])]
    /\ UNCHANGED <<otherVars, clicks>>

\* POST: updateTargetUser, the findByIdAndUpdate of the followers list
FollowUpdateTarget(c) ==
    /\ followReq[c].stage = "found"
    /\ ~followReq[c].other
    /\ users' = [users EXCEPT ![followReq[c].target].followers =
                     UpdateLikes(@, followReq[c].userId, followReq[c].isFollowing)]
    /\ followReq' = [followReq EXCEPT ![c] = Settle([@ EXCEPT !.other = TRUE])]
    /\ UNCHANGED <<otherVars, clicks>>

\* POST: a read throws and the catch branch answers 500
FollowError(c) ==
    /\ followReq[c].stage = "sent"
    /\ followReq' = [followReq EXCEPT ![c].stage = "done", ![c].status = 500]
    /\ UNCHANGED <<otherVars, users, clicks>>

NextFollow ==
    \/ \E c \in Conns, userId \in Sessions, target \in Sessions :
          FollowRequest(c, userId, target)
    \/ \E c \in Conns : FollowFind(c)
    \/ \E c \in Conns : FollowUpdateCurrent(c)
    \/ \E c \in Conns : FollowUpdateTarget(c)
    \/ \E c \in Conns : FollowError(c)

SpecFollow == Init /\ [][NextFollow]_vars

(***************************************************************************)
(* The socket context of one client: the provider mounts and creates the   *)
(* socket, the socket connects, closes and reconnects, the components      *)
(* render, and the document is torn down.                                  *)
(***************************************************************************)
ctxRest ==
    <<posts, item, feedVars, likeVars, calls, users, followReq, delReq, procVars>>

\* the effect of SocketProvider: io(url, {autoConnect: true, ...}) is stored
\* in socketRef.current and the socket listeners are attached
ProviderEffect(c) ==
    /\ ~ctx[c].socketRef
    /\ ctx' = [ctx EXCEPT ![c].socketRef = TRUE]
    /\ UNCHANGED <<hubVars, lifeVars, ctxRest>>

\* the socket connects or reconnects: the server registers a new socket, and
\* on("connect") sets isConnected and emits hello
OnConnect(c) ==
    /\ ctx[c].socketRef
    /\ c \notin connected
    /\ sid[c] < MaxConnections
    /\ connected' = connected \cup {c}
    /\ closed' = closed \ {c}
    /\ sid' = [sid EXCEPT ![c] = @ + 1]
    /\ ctx' = [ctx EXCEPT ![c].isConnected = TRUE, ![c].hellos = @ + 1]
    /\ emitted' = emitted + 1
    /\ inbox' = [inbox EXCEPT ![c] =
                    Append(@, Envelope("hello", Text("Client connected!"), c, emitted + 1))]
    /\ UNCHANGED <<wire, received, last, dropped, missed, closes, ctxRest>>

\* the transport closes: the server removes the socket, and on("disconnect")
\* resets isConnected
OnDisconnect(c) ==
    /\ c \in connected
    /\ connected' = connected \ {c}
    /\ closed' = closed \cup {c}
    /\ inbox' = [inbox EXCEPT ![c] = <<>>]
    /\ wire' = [wire EXCEPT ![c] = <<>>]
    /\ closes' = [closes EXCEPT ![c] = Append(@, "transport close")]
    /\ ctx' = [ctx EXCEPT ![c].isConnected = FALSE]
    /\ UNCHANGED <<received, emitted, last, dropped, sid, missed, ctxRest>>

\* the provider renders after a state change: the context value is
\* { socket: socketRef.current, isConnected }, and the listener effects of
\* Feed and PostItem run for the new value
Render(c) ==
    /\ ctx[c].value.isConnected # ctx[c].isConnected
    /\ LET new == [socket |-> ctx[c].socketRef, isConnected |-> ctx[c].isConnected] IN
         ctx' = [ctx EXCEPT ![c].value = new,
                            ![c].handlers =
                               [e \in ListenerEvents |->
                                   listenersEffect(ctx[c].handlers[e], ctx[c].value, new)]]
    /\ UNCHANGED <<hubVars, lifeVars, ctxRest>>

\* the document is torn down and the provider unmounts with its children:
\* their cleanups detach the handlers, the cleanup of the provider
\* disconnects a connected socket and resets socketRef and isConnected
ProviderCleanup(c) ==
    /\ ctx[c].socketRef
    /\ ctx' = [ctx EXCEPT ![c] =
                  [NewProvider EXCEPT
                      !.hellos = ctx[c].hellos,
                      !.handlers =
                         [e \in ListenerEvents |->
                             listenersEffect(ctx[c].handlers[e], ctx[c].value,
                                             NewProvider.value)]]]
    /\ connected' = connected \ {c}
    /\ closed' = IF c \in connected THEN closed \cup {c} ELSE closed
    /\ inbox' = [inbox EXCEPT ![c] = <<>>]
    /\ wire' = [wire EXCEPT ![c] = <<>>]
    /\ closes' = IF c \in connected
                 THEN [closes EXCEPT ![c] = Append(@, "client namespace disconnect")]
                 ELSE closes
    /\ UNCHANGED <<received, emitted, last, dropped, sid, missed, ctxRest>>

NextContext ==
    \/ ProviderEffect(Sender)
    \/ OnConnect(Sender)
    \/ OnDisconnect(Sender)
    \/ Render(Sender)
    \/ ProviderCleanup(Sender)
    \/ \E c \in Conns : ServerHandle(c)
    \/ \E c \in Conns : ClientReceive(c)

SpecContext == Init /\ [][NextContext]_vars

(***************************************************************************)
(* The server process: requests on three connections call dbConnect while  *)
(* the database connects or fails, and GET /api/socketio requests arrive.  *)
(***************************************************************************)
procRest ==
    <<hubVars, posts, item, feedVars, likeVars, lifeVars, calls, users, followReq,
      delReq, ctx>>

\* a dbConnect that does not test cached.promise
DbConnectCall_always(c) ==
    /\ dbCall[c].stage # "waiting"
    /\ IF cached.conn
       THEN /\ dbCall' = [dbCall EXCEPT ![c] = [stage |-> "returned", attempt |-> 0]]
            /\ cached' = cached
       ELSE /\ cached.made < MaxConnections
            /\ cached' = [cached EXCEPT !.promise = "pending", !.made = @ + 1]
            /\ dbCall' = [dbCall EXCEPT ![c] =
                              [stage |-> "waiting", attempt |-> cached.made + 1]]
    /\ UNCHANGED <<procRest, sio>>

\* dbConnect up to its await: the cached connection is returned, or the
\* promise is created if there is none, and the call awaits cached.promise
DbConnectCall(c) ==
    /\ dbCall[c].stage # "waiting"
    /\ IF cached.conn
       THEN /\ dbCall' = [dbCall EXCEPT ![c] = [stage |-> "returned", attempt |-> 0]]
            /\ cached' = cached
       ELSE IF cached.promise = "null"
       THEN /\ cached.made < MaxConnections
            /\ cached' = [cached EXCEPT !.promise = "pending", !.made = @ + 1]
            /\ dbCall' = [dbCall EXCEPT ![c] =
                              [stage |-> "waiting", attempt |-> cached.made + 1]]
       ELSE /\ cached' = cached
            /\ dbCall' = [dbCall EXCEPT ![c] =
                              [stage |-> "waiting", attempt |-> cached.made]]
    /\ UNCHANGED <<procRest, sio>>

\* mongoose.connect resolves: the continuations of the calls that await the
\* promise run in one turn of the job queue, each sets cached.conn and
\* returns it
ConnectResolves ==
    /\ cached.promise = "pending"
    /\ cached' = [cached EXCEPT !.promise = "resolved", !.conn = TRUE]
    /\ dbCall' = [c \in Conns |->
                     IF dbCall[c].stage = "waiting"
                     THEN [dbCall[c] EXCEPT !.stage = "returned"]
                     ELSE dbCall[c]]
    /\ UNCHANGED <<procRest, sio>>

\* mongoose.connect rejects: the continuations of the calls that await the
\* promise run in one turn of the job queue, each catch branch clears
\* cached.promise and rethrows
ConnectRejects ==
    /\ cached.promise = "pending"
    /\ cached' = [cached EXCEPT !.promise = "null", !.failed = @ + 1]
    /\ dbCall' = [c \in Conns |->
                     IF dbCall[c].stage = "waiting"
                     THEN [dbCall[c] EXCEPT !.stage = "thrown"]
                     ELSE dbCall[c]]
    /\ UNCHANGED <<procRest, sio>>

\* a socketio route that does not test global.ioInstance
SocketioGet_noCheck(hasServer) ==
    /\ sio.requests < MaxRequests
    /\ sio' = IF ~hasServer
              THEN [sio EXCEPT !.requests = @ + 1, !.status = 500, !.seen = @ \cup {500}]
              ELSE [sio EXCEPT !.requests = @ + 1, !.status = 201,
                               !.seen = @ \cup {201}, !.created = @ + 1,
                               !.ioInstance = sio.created + 1]
    /\ UNCHANGED <<procRest, cached, dbCall>>

\* GET /api/socketio; hasServer tells whether res.socket?.server is there
SocketioGet(hasServer) ==
    /\ sio.requests < MaxRequests
    /\ sio' = IF sio.ioInstance # 0
              THEN [sio EXCEPT !.requests = @ + 1, !.status = 200, !.seen = @ \cup {200}]
              ELSE IF ~hasServer
              THEN [sio EXCEPT !.requests = @ + 1, !.status = 500, !.seen = @ \cup {500}]
              ELSE [sio EXCEPT !.requests = @ + 1, !.status = 201,
                               !.seen = @ \cup {201}, !.created = @ + 1,
                               !.ioInstance = sio.created + 1]
    /\ UNCHANGED <<procRest, cached, dbCall>>

NextServer ==
    \/ \E c \in Conns : DbConnectCall(c)
    \/ ConnectResolves
    \/ ConnectRejects
    \/ \E hasServer \in BOOLEAN : SocketioGet(hasServer)

SpecServer == Init /\ [][NextServer]_vars

(***************************************************************************)
(* The delete route: DELETE requests with or without a token, for stored,  *)
(* missing and ill-formed post ids.                                        *)
(***************************************************************************)
restVars ==
    <<hubVars, posts, item, feed, pending, likeVars, lifeVars, calls, users, followReq,
      ctx, procVars>>

\* a DELETE request arrives; userId is token.id, undefined without a token
DeleteRequest(c, userId, postId) ==
    /\ clicks < MaxClicks
    /\ delReq[c].stage \in {"idle", "done"}
    /\ clicks' = clicks + 1
    /\ delReq' = [delReq EXCEPT ![c] = [NoDelete EXCEPT !.stage = "sent",
                                                        !.userId = userId,
                                                        !.postId = postId]]
    /\ UNCHANGED <<hubVars, posts, item, feedVars, dbLikes, likeReq, lifeVars, calls,
                   users, followReq, ctx, procVars>>

\* a delete route that does not compare the author with the token
DeleteFind_anyUser(c) ==
    /\ delReq[c].stage = "sent"
    /\ LET r == delReq[c] IN
         delReq' = [delReq EXCEPT ![c] =
            CASE ~Truthy(r.userId) -> [r EXCEPT !.stage = "done", !.status = 401]
              [] ~(Truthy(r.postId) /\ IsValidObjectId(r.postId)) ->
                    [r EXCEPT !.stage = "done", !.status = 400]
              [] ~Includes(db, r.postId) -> [r EXCEPT !.stage = "done", !.status = 404]
              [] OTHER -> [r EXCEPT !.stage = "found"]]
    /\ UNCHANGED <<restVars, db>>

\* DELETE: the token, the post id, Post.findById and the author test
DeleteFind(c) ==
    /\ delReq[c].stage = "sent"
    /\ LET r == delReq[c] IN
         delReq' = [delReq EXCEPT ![c] =
            CASE ~Truthy(r.userId) -> [r EXCEPT !.stage = "done", !.status = 401]
              [] ~(Truthy(r.postId) /\ IsValidObjectId(r.postId)) ->
                    [r EXCEPT !.stage = "done", !.status = 400]
              [] ~Includes(db, r.postId) -> [r EXCEPT !.stage = "done", !.status = 404]
              [] AuthorOf(r.postId) # r.userId -> [r EXCEPT !.stage = "done", !.status = 403]
              [] OTHER -> [r EXCEPT !.stage = "found"]]
    /\ UNCHANGED <<restVars, db>>

\* DELETE: Post.findByIdAndDelete and the 200 response
DeleteApply(c) ==
    /\ delReq[c].stage = "found"
    /\ db' = LET keep(id) == id # delReq[c].postId IN SelectSeq(db, keep)
    /\ delReq' = [delReq EXCEPT ![c].stage = "done", ![c].status = 200]
    /\ UNCHANGED restVars

\* DELETE: a database call throws and the catch branch answers 500
DeleteError(c) ==
    /\ delReq[c].stage = "found"
    /\ delReq' = [delReq EXCEPT ![c].stage = "done", ![c].status = 500]
    /\ UNCHANGED <<restVars, db>>

\* the tokens and post ids of the requests: no token, the author, another
\* user; the stored post, a post that is not stored, ill-formed ids
DeleteUsers == {Undef, Str("u1"), Str("u2")}
DeleteIds == {ItemPost, PostId(2), Str("not-an-id"), Str("")}

NextDelete ==
    \/ \E c \in Conns, userId \in DeleteUsers, postId \in DeleteIds :
          DeleteRequest(c, userId, postId)
    \/ \E c \in Conns : DeleteFind(c)
    \/ \E c \in Conns : DeleteApply(c)
    \/ \E c \in Conns : DeleteError(c)

SpecDelete == InitLike /\ [][NextDelete]_vars

SpecItem == InitLike /\ [][NextItem]_vars

(***************************************************************************)
(* The mutation handlers of one client whose transport may close, with the *)
(* routes they call and the relay to the other clients.                    *)
(***************************************************************************)
NextClient ==
    \/ LikeClick(Sender)
    \/ PatchFind(Sender)
    \/ PatchUpdate(Sender)
    \/ PatchError(Sender)
    \/ LikeResponse(Sender)
    \/ CommentSubmit(Sender)
    \/ DeleteClick(Sender)
    \/ PostSubmit(Sender)
    \/ \E call \in calls, ok \in BOOLEAN : ApiAnswer(call, ok)
    \/ \E call \in calls : CommentResponse(call)
    \/ \E call \in calls : DeleteResponse(call)
    \/ \E call \in calls : PostResponse(call)
    \/ Disconnect(Sender)
    \/ Reconnect(Sender)
    \/ \E c \in Conns : ServerHandle(c)
    \/ \E c \in Conns : ClientReceive(c)

SpecClient == InitLike /\ [][NextClient]_vars

(***************************************************************************)
(* Properties of the relay                                                 *)
(***************************************************************************)
\* the step in which the server handled a frame of o
HandleStep(o) == last'.n # last.n /\ last'.from = o

MutationNames ==
    {"like_updated_from_client", "new_post_from_client", "new_comment_from_client"}

\* the outbound name the contract gives an inbound name
OutboundName(name) ==
    CASE name = "like_updated_from_client" -> "like_updated"
      [] name = "new_post_from_client" -> "post_created"
      [] name = "new_comment_from_client" -> "comment_added"
      [] name = "delete_post_from_client" -> "post_deleted"
      [] OTHER -> "helloFromServer"

\* the payload has the fields the contract requires of the event
WellFormed(name, d) ==
    /\ d.k = "object"
    /\ CASE name = "like_updated_from_client" ->
              /\ d.postId.k = "string"
              /\ d.likes.k = "array"
              /\ \A i \in 1..Len(d.likes.a) : d.likes.a[i].k = "string"
         [] name = "new_post_from_client" ->
              d._id.k = "string" /\ d.author.k = "object"
         [] name = "new_comment_from_client" ->
              d.postId.k = "string" /\ d.comment.k = "object" /\ d.comment._id.k = "string"
         [] name = "delete_post_from_client" -> d.postId.k = "string"
         [] OTHER -> FALSE

\* the payload lacks something the event requires
Malformed(name, d) ==
    \/ d.k \in {"null", "undefined"}
    \/ name = "like_updated_from_client" /\ (d.postId.k = "undefined" \/ d.likes.k # "array")
    \/ name = "new_post_from_client" /\ (d._id.k = "undefined" \/ d.author.k = "undefined")
    \/ name = "new_comment_from_client"
          /\ (d.postId.k = "undefined" \/ d.comment.k = "undefined"
                \/ d.comment._id.k = "undefined")
    \/ name = "delete_post_from_client" /\ d.postId.k = "undefined"

\* the frames of event number n that client c was given
Got(c, n) == {i \in 1..Len(received[c]) : received[c][i].n = n}

\* C1: handling a valid mutation event of socket o puts exactly one new frame
\* on the transport of every other open socket and none on any other
\* transport, that of o included.
C1_FanOutToOthers ==
    [][\A o \in Conns :
          (HandleStep(o) /\ last'.name \in MutationNames
             /\ WellFormed(last'.name, last'.payload))
          => /\ \A c \in Conns :
                   Len(wire'[c]) = Len(wire[c]) + (IF c \in connected \ {o} THEN 1 ELSE 0)
             /\ \A c \in connected \ {o} : wire'[c][Len(wire'[c])].n = last'.n
             /\ Cardinality({c \in Conns : wire'[c] # wire[c]})
                  = Cardinality(connected) - 1]_vars

C1_Witness ==
    /\ last.name \in MutationNames
    /\ \A c \in Conns \ {last.from} : Got(c, last.n) # {}
    /\ Got(last.from, last.n) = {}
    /\ wire[last.from] = <<>>

\* C2: handling a malformed payload changes no transport.
C2_MalformedDropped ==
    [][\A o \in Conns :
          (HandleStep(o) /\ Malformed(last'.name, last'.payload)) => wire' = wire]_vars

\* a malformed event was handled and a later event of the same socket relayed
C2_Witness ==
    /\ \E e \in dropped : e.n < last.n /\ e.from = last.from /\ Malformed(e.name, e.payload)
                           /\ e.name \in MutationNames
    /\ \E c \in Conns : Got(c, last.n) # {}
    /\ last.name \in MutationNames

\* C3: handling delete_post_from_client with a postId puts post_deleted with
\* the same payload on the transport of every other open socket.
C3_DeleteRelayed ==
    [][\A o \in Conns :
          (HandleStep(o) /\ last'.name = "delete_post_from_client"
             /\ WellFormed(last'.name, last'.payload))
          => \A c \in connected \ {o} :
                wire'[c] = Append(wire[c],
                     Envelope("post_deleted", last'.payload, o, last'.n))]_vars

\* C4: every frame a valid inbound event puts on a transport carries the
\* mapped outbound name and the inbound payload, unchanged.
C4_NameAndPayload ==
    [][\A o \in Conns :
          (HandleStep(o) /\ last'.name \in MutationNames
             /\ WellFormed(last'.name, last'.payload))
          => /\ \E c \in Conns : wire'[c] # wire[c]
             /\ \A c \in Conns :
                   wire'[c] # wire[c] =>
                     /\ wire'[c][Len(wire'[c])].name = OutboundName(last'.name)
                     /\ wire'[c][Len(wire'[c])].payload = last'.payload]_vars

C4_Witness ==
    \E c \in Conns \ {Sender} : \E i \in 1..Len(received[c]) :
        /\ received[c][i].name = "comment_added"
        /\ received[c][i].payload = CommentData(Str("p1"), Comment(Str("c1")))

\* C5: the relays a client was given from one origin are in the order that
\* origin emitted them.
C5_FifoPerSender ==
    \A c \in Conns : \A i, j \in 1..Len(received[c]) :
        (i < j /\ received[c][i].from = received[c][j].from)
        => received[c][i].n < received[c][j].n

C5_Witness ==
    \E c \in Conns : \E i, j \in 1..Len(received[c]) :
        /\ i < j
        /\ received[c][i].from = received[c][j].from
        /\ received[c][i].from # c
        /\ received[c][i].name # received[c][j].name

\* C6: a socket that has disconnected gets no frame on its transport and its
\* listeners are not called again.
C6_NothingAfterDisconnect ==
    [][\A c \in closed :
          /\ wire[c] = <<>>
          /\ wire'[c] = <<>>
          /\ received'[c] = received[c]]_vars

\* a relay handled after a socket closed reached an open socket
C6_Witness ==
    /\ last.name \in MutationNames
    /\ \E c \in last.gone : c # last.from /\ received[c] # <<>> /\ Got(c, last.n) = {}
    /\ \E d \in Conns \ {last.from} : Got(d, last.n) # {}

\* C9: handling hello puts exactly one helloFromServer frame on the transport
\* of the socket that sent it and nothing on any other transport.
C9_HelloUnicast ==
    [][\A o \in Conns :
          (HandleStep(o) /\ last'.name = "hello")
          => /\ Len(wire'[o]) = Len(wire[o]) + 1
             /\ wire'[o][Len(wire'[o])].name = "helloFromServer"
             /\ \A c \in Conns \ {o} : wire'[c] = wire[c]]_vars

C9_Witness ==
    /\ last.name = "hello"
    /\ \E d \in connected \ {last.from} : \E i \in 1..Len(received[d]) :
          received[d][i].from = last.from /\ received[d][i].n < last.n
    /\ \E i \in Got(last.from, last.n) :
          received[last.from][i].name = "helloFromServer"
    /\ \A c \in Conns \ {last.from} : Got(c, last.n) = {}

(***************************************************************************)
(* Properties of the client reconcilers                                    *)
(***************************************************************************)
\* ids of the oldest post, of the posts around the page limit, and of a post
\* that was never stored
SomePostIds == {PostId(1), PostId(limit), PostId(limit + 1), PostId(MaxPosts + 1)}

\* C7: in every state of a Feed and a PostItem, calling handleNewPost twice
\* with the same post, or handleCommentAdded twice with the same comment,
\* gives the state that calling it once gives.
C7_ApplyTwiceIsOnce ==
    \A c \in Conns :
      /\ \A id \in SomePostIds :
           LET p == Populated(id) IN
             handleNewPost(handleNewPost(posts[c], p), p) = handleNewPost(posts[c], p)
      /\ \A pid \in {ItemPost, Str("p2")} : \A cid \in {Str("c1"), Str("c2")} :
           LET d == CommentData(pid, Comment(cid)) IN
             handleCommentAdded(handleCommentAdded(item[c], d), d)
               = handleCommentAdded(item[c], d)

\* the Viewer was given the same post_created and the same comment_added twice
C7_Witness ==
    /\ \E i, j \in 1..Len(received[Viewer]) :
          /\ i < j
          /\ received[Viewer][i] = received[Viewer][j]
          /\ received[Viewer][i].name = "post_created"
          /\ Cardinality({k \in 1..Len(posts[Viewer]) :
                posts[Viewer][k]._id = received[Viewer][i].payload._id}) = 1
    /\ \E i, j \in 1..Len(received[Viewer]) :
          /\ i < j
          /\ received[Viewer][i] = received[Viewer][j]
          /\ received[Viewer][i].name = "comment_added"
    /\ Len(item[Viewer].comments) = 1

\* C8: the post list of a Feed never holds two posts with the same _id.
C8_NoDuplicateIds ==
    \A c \in Conns : \A i, j \in 1..Len(posts[c]) :
        i # j => posts[c][i]._id # posts[c][j]._id

\* no request, frame or response is in flight
Quiescent ==
    /\ \A c \in Conns : likeReq[c].stage = "idle"
    /\ \A c \in Conns : inbox[c] = <<>> /\ wire[c] = <<>>

\* C10: once nothing is in flight, every client shows the like count and
\* the liked flag that the stored likes give.
C10_ViewsConverge ==
    (Quiescent /\ connected = Conns)
    => \A c \in Conns :
          /\ item[c].likeCount = Len(dbLikes)
          /\ item[c].isLiked = Includes(dbLikes, UserOf[c])

\* C20: handling a like_updated_from_client whose postId is not a string or
\* whose likes is not an array of strings changes no transport.
C20_OnlyTypedLikesRelayed ==
    [][\A o \in Conns :
          (HandleStep(o) /\ last'.name = "like_updated_from_client"
             /\ ~WellFormed(last'.name, last'.payload))
          => wire' = wire]_vars

(***************************************************************************)
(* Properties of delivery and of the connection lifecycle                  *)
(***************************************************************************)
\* C11: a relay reaches every other open socket whatever the other
\* transports still hold, puts nothing on the transport of its origin, a
\* transport that closes with frames in flight changes no other transport,
\* and a client with a frame in flight can take it whatever the others do.
C11_DeliveryIndependent ==
    /\ [][\A o \in Conns :
            (HandleStep(o) /\ last'.name \in MutationNames
               /\ WellFormed(last'.name, last'.payload))
            => /\ \A c \in connected \ {o} :
                     wire'[c] = Append(wire[c],
                         Envelope(OutboundName(last'.name), last'.payload, o, last'.n))
               /\ wire'[o] = wire[o]]_vars
    /\ [][\A c \in Conns :
            (c \in connected /\ c \notin connected')
            => \A d \in Conns \ {c} : wire'[d] = wire[d] /\ received'[d] = received[d]]_vars
    /\ [](\A d \in connected : wire[d] # <<>> => ENABLED ClientReceive(d))

\* a socket closed with the last relay in flight, another socket was given
\* that relay, and the origin was told nothing
C11_Witness ==
    /\ last.name \in MutationNames
    /\ Got(last.from, last.n) = {}
    /\ wire[last.from] = <<>>
    /\ \E d \in closed \ last.gone :
          /\ d # last.from
          /\ received[d] # <<>>
          /\ Got(d, last.n) = {}
          /\ \E c \in Conns \ {d, last.from} : Got(c, last.n) # {}

\* C12: no client is given the same event twice or an event the server
\* handled while the client was closed; a closed client has no frame
\* buffered, and a client that reconnects gets a new socket id and an
\* empty transport.
C12_AtMostOnce ==
    /\ [](\A c \in Conns :
            /\ \A i, j \in 1..Len(received[c]) :
                  i # j => received[c][i].n # received[c][j].n
            /\ \A i \in 1..Len(received[c]) : received[c][i].n \notin missed[c]
            /\ \A i \in 1..Len(wire[c]) : wire[c][i].n \notin missed[c]
            /\ c \notin connected => wire[c] = <<>>)
    /\ [][\A c \in Conns :
            (c \notin connected /\ c \in connected')
            => sid'[c] = sid[c] + 1 /\ wire'[c] = <<>>]_vars

\* a client missed a relay another client was given, reconnected and was
\* given the next relay
C12_Witness ==
    \E c \in connected :
        /\ sid[c] > 1
        /\ \E n \in missed[c] : \E d \in Conns \ {c} : Got(d, n) # {}
        /\ Got(c, last.n) # {}
        /\ last.n \notin missed[c]

\* C13: the sockets a relay is put on the transport of are exactly the open
\* sockets other than the origin; a socket that is not open has no frame on
\* its transport, and listeners are called only on open sockets that have
\* connected.
C13_EligibleIsOpen ==
    /\ [](\A c \in Conns \ connected : wire[c] = <<>>)
    /\ [](\A c \in Conns : sid[c] = 0 => received[c] = <<>>)
    /\ [][\A o \in Conns :
            (HandleStep(o) /\ last'.name \in MutationNames
               /\ WellFormed(last'.name, last'.payload))
            => {c \in Conns : wire'[c] # wire[c]} = connected \ {o}]_vars
    /\ [][\A c \in Conns : received'[c] # received[c] => c \in connected]_vars

\* one relay was handled before any other socket had connected, the last
\* one after a socket had closed, and a socket that connected in between
\* was given the last one only
C13_Witness ==
    /\ last.name \in MutationNames
    /\ \E d \in last.gone : d # last.from
    /\ \E e \in dropped :
          /\ e.name \in MutationNames
          /\ e.n # last.n
          /\ \E c \in connected \ {last.from} : Got(c, last.n) # {} /\ Got(c, e.n) = {}

KindOf(name) ==
    CASE name = "new_comment_from_client" -> "comment"
      [] name = "delete_post_from_client" -> "delete"
      [] name = "new_post_from_client" -> "post"
      [] OTHER -> "like"

\* the step is the continuation of a handler of c whose call was answered ok
Answered(c, kind, ok) ==
    IF kind = "like"
    THEN likeReq[c].stage = "done" /\ likeReq[c].ok = ok /\ likeReq'[c].stage = "idle"
    ELSE \E call \in calls \ calls' :
            call.client = c /\ call.kind = kind /\ call.stage = "done" /\ call.ok = ok

\* C15: a client puts a frame on its socket only in the continuation of a
\* handler whose API call answered success, and the frame is the event of
\* that call; the continuation of a failed call puts no frame on the socket.
C15_EmitOnlyAfterSuccess ==
    [][\A c \in Conns :
          /\ Len(inbox'[c]) > Len(inbox[c])
               => LET f == inbox'[c][Len(inbox'[c])] IN
                    /\ inbox'[c] = Append(inbox[c], f)
                    /\ f.name \in {"like_updated_from_client", "new_comment_from_client",
                                    "delete_post_from_client", "new_post_from_client"}
                    /\ Answered(c, KindOf(f.name), TRUE)
          /\ (\E kind \in {"like", "comment", "delete", "post"} : Answered(c, kind, FALSE))
               => inbox' = inbox /\ emitted' = emitted]_vars

\* of two calls of a client that never closed one failed and emitted
\* nothing, the other succeeded and its event reached another client
C15_Witness ==
    /\ clicks = 2
    /\ calls = {}
    /\ \A c \in Conns : likeReq[c].stage = "idle"
    /\ closes[Sender] = <<>>
    /\ emitted = 1
    /\ \E c \in Conns \ {Sender} : Got(c, 1) # {}

\* C16: the continuation of a successful like or comment call of a client
\* whose socket is not connected applies the local update and puts no frame
\* on the socket.
C16_OfflineUpdateNoEmit ==
    [][\A c \in Conns \ connected :
          /\ Answered(c, "like", TRUE)
               => /\ item'[c].likeCount = Len(likeReq[c].likes)
                  /\ item'[c].isLiked = Includes(likeReq[c].likes, UserOf[c])
                  /\ inbox'[c] = inbox[c]
                  /\ emitted' = emitted
          /\ Answered(c, "comment", TRUE)
               => /\ Len(item'[c].comments) = Len(item[c].comments) + 1
                  /\ Tail(item'[c].comments) = item[c].comments
                  /\ item'[c].showComments
                  /\ inbox'[c] = inbox[c]
                  /\ emitted' = emitted]_vars

(***************************************************************************)
(* Properties of the PostItem and Feed listeners                           *)
(***************************************************************************)
\* the step in which the listeners of c were called with a frame
ReceiveStep(c) == received'[c] # received[c]

\* the frame the listeners of c were called with last
LastFrame(c) == received'[c][Len(received'[c])]

\* the likes lists and session users the like listener is tried with
SomeLikes ==
    {<<>>, <<Str("u1")>>, <<Str("u2")>>, <<Str("u1"), Str("u2")>>,
     <<Str("u3"), Str("u2"), Str("u1")>>}

SomeUsers == {Str("u1"), Str("u2"), Undef}

\* C17: handleLikeUpdate called with the likes of its own post gives a
\* likeCount equal to the length of the list and an isLiked that holds
\* exactly when a user is logged in and is a member of the list, and it
\* changes nothing else; a like_updated frame of the post does so.
C17_LikeUpdateSetsCountAndFlag ==
    /\ [](\A c \in Conns : \A likes \in SomeLikes : \A u \in SomeUsers :
            LET r == handleLikeUpdate(item[c], LikeData(ItemPost, Arr(likes)), u) IN
              /\ r.likeCount = Len(likes)
              /\ r.isLiked = (u # Undef /\ \E i \in 1..Len(likes) : likes[i] = u)
              /\ r = [item[c] EXCEPT !.likeCount = r.likeCount, !.isLiked = r.isLiked])
    /\ [][\A c \in Conns :
            (ReceiveStep(c) /\ LastFrame(c).name = "like_updated"
               /\ LastFrame(c).payload.postId = ItemPost)
            => /\ item'[c].likeCount = Len(LastFrame(c).payload.likes.a)
               /\ item'[c].isLiked =
                     (\E i \in 1..Len(LastFrame(c).payload.likes.a) :
                         LastFrame(c).payload.likes.a[i] = UserOf[c])]_vars

\* the Viewer was given a list it is a member of, then one it is not in
C17_Witness ==
    /\ Len(received[Viewer]) = 2
    /\ received[Viewer][1].payload = LikeData(ItemPost, Arr(<<UserOf[Viewer]>>))
    /\ received[Viewer][2].payload = LikeData(ItemPost, Arr(<<Str("u1"), Str("u3")>>))
    /\ item[Viewer].likeCount = 2
    /\ ~item[Viewer].isLiked

\* the posts of a list whose _id is not id, in the order of the list
RECURSIVE Without(_, _)
Without(list, id) ==
    IF list = <<>>
    THEN <<>>
    ELSE (IF Head(list)._id = id THEN <<>> ELSE <<Head(list)>>) \o Without(Tail(list), id)

\* C18: handlePostDeleted called with a postId gives the list without the
\* posts of that _id, the others in their order (the same list when none
\* has it); called without a postId or without data it gives the same
\* list; a post_deleted frame changes the Feed in this way.
C18_DeleteRemovesMatching ==
    /\ [](\A c \in Conns :
            /\ \A id \in SomePostIds :
                  handlePostDeleted(posts[c], DeleteData(id)) = Without(posts[c], id)
            /\ \A d \in {DeleteData(Undef), DeleteData(Str("")), Empty("undefined"),
                          Empty("null")} :
                  handlePostDeleted(posts[c], d) = posts[c])
    /\ [][\A c \in Conns :
            (ReceiveStep(c) /\ LastFrame(c).name = "post_deleted")
            => posts'[c] = IF LastFrame(c).payload.postId.k = "string"
                           THEN Without(posts[c], LastFrame(c).payload.postId)
                           ELSE posts[c]]_vars

\* the Viewer held a page of posts, was given post_deleted for one of them
\* and holds the others
C18_Witness ==
    /\ Len(posts[Viewer]) = limit - 1
    /\ \E i \in 1..Len(received[Viewer]) :
          /\ received[Viewer][i].name = "post_deleted"
          /\ received[Viewer][i].payload.postId = ItemPost
          /\ \A k \in 1..Len(posts[Viewer]) : posts[Viewer][k]._id # ItemPost

\* C19: the like and comment listeners called with the id of another post
\* return the PostItem unchanged, and a like_updated or comment_added frame
\* about another post leaves the PostItem as it was.
C19_OtherPostIgnored ==
    /\ [](\A c \in Conns : \A likes \in SomeLikes : \A u \in SomeUsers :
            \A pid \in {Str("p2"), Str("p11"), Undef} :
              /\ handleLikeUpdate(item[c], LikeData(pid, Arr(likes)), u) = item[c]
              /\ \A cid \in {Str("c1"), Str("c2")} :
                    handleCommentAdded(item[c], CommentData(pid, Comment(cid))) = item[c])
    /\ [][\A c \in Conns :
            (ReceiveStep(c) /\ LastFrame(c).name \in {"like_updated", "comment_added"}
               /\ LastFrame(c).payload.postId # ItemPost)
            => item'[c] = item[c]]_vars

\* the Viewer holds a like and a comment of its post and was then given a
\* like_updated and a comment_added about another post
C19_Witness ==
    /\ Len(received[Viewer]) = 4
    /\ received[Viewer][3].name = "like_updated"
    /\ received[Viewer][3].payload.postId = Str("p2")
    /\ received[Viewer][4].name = "comment_added"
    /\ received[Viewer][4].payload.postId = Str("p2")
    /\ item[Viewer].likeCount = 1
    /\ item[Viewer].isLiked
    /\ item[Viewer].comments = <<Comment(Str("c1"))>>
    /\ item[Viewer].showComments

\* C21: handling like_updated_from_client with a string postId and an empty
\* likes array puts like_updated with that payload on the transport of
\* every other open socket, and the PostItem of the post that is given the
\* frame shows a like count of 0 and is not liked.
C21_EmptyLikesRelayed ==
    /\ [][\A o \in Conns :
            (HandleStep(o) /\ last'.name = "like_updated_from_client"
               /\ last'.payload.k = "object"
               /\ last'.payload.postId.k = "string" /\ last'.payload.postId.s # ""
               /\ last'.payload.likes = Arr(<<>>))
            => \A c \in connected \ {o} :
                  wire'[c] = Append(wire[c],
                       Envelope("like_updated", last'.payload, o, last'.n))]_vars
    /\ [][\A c \in Conns :
            (ReceiveStep(c) /\ LastFrame(c).name = "like_updated"
               /\ LastFrame(c).payload.postId = ItemPost
               /\ LastFrame(c).payload.likes = Arr(<<>>))
            => item'[c].likeCount = 0 /\ ~item'[c].isLiked]_vars

\* a user liked the post and took the like back; another client was given
\* both lists and shows no like
C21_Witness ==
    /\ dbLikes = <<>>
    /\ \E c \in Conns \ Emitters :
          /\ Len(received[c]) = 2
          /\ Len(received[c][1].payload.likes.a) = 1
          /\ received[c][2].name = "like_updated"
          /\ received[c][2].payload = LikeData(ItemPost, Arr(<<>>))
          /\ received[c][2].from = received[c][1].from
          /\ item[c].likeCount = 0
          /\ ~item[c].isLiked

\* C22: the continuation of a delete call that answered success leaves the
\* Feed of the deleting client without the deleted post and opens no alert.
C22_DeleterFeedRefreshed ==
    [][\A c \in Conns :
          Answered(c, "delete", TRUE)
          => /\ \A i \in 1..Len(posts'[c]) : posts'[c][i]._id # ItemPost
             /\ item'[c].alerts = item[c].alerts]_vars

(***************************************************************************)
(* Properties of the routes                                                *)
(***************************************************************************)
\* C23: the step in which a like PATCH succeeds changes whether the user
\* of the request is in the stored likes, and the response carries the
\* stored likes.
C23_PatchFlipsMembership ==
    [][\A c \in Conns :
          (likeReq[c].stage = "found" /\ likeReq'[c].stage = "done" /\ likeReq'[c].ok)
          => /\ Includes(dbLikes', likeReq[c].userId) # Includes(dbLikes, likeReq[c].userId)
             /\ likeReq'[c].likes = dbLikes']_vars

\* C24: once every follow request has completed, b is in the following
\* list of a exactly when a is in the followers list of b; a request of a
\* user for itself is answered 400 and changes neither list.
C24_FollowSymmetric ==
    /\ []((\A c \in Conns : followReq[c].stage \in {"idle", "done"})
           => \A a, b \in Sessions :
                 Includes(users[a].following, b) <=> Includes(users[b].followers, a))
    /\ [][\A c \in Conns :
            (followReq[c].stage = "sent" /\ followReq[c].target = followReq[c].userId
               /\ followReq'[c] # followReq[c])
            => followReq'[c].status \in {400, 500} /\ users' = users]_vars

\* the status the claim gives a request that is not by the author of a
\* stored post, 0 for one that is
Rejection(r) ==
    CASE r.userId = Undef -> 401
      [] r.postId \notin {PostId(i) : i \in 1..(MaxPosts + 2)} -> 400
      [] \A i \in 1..Len(db) : db[i] # r.postId -> 404
      [] r.userId # Str("u1") -> 403
      [] OTHER -> 0

\* C25: a request without a token is answered 401, with an invalid id 400,
\* for a missing post 404, by a non-author 403, and none of these changes
\* the stored posts; the stored posts change only by the removal of the
\* post of a request whose token is the author's.
C25_OnlyAuthorDeletes ==
    /\ [][\A c \in Conns :
            (delReq[c].stage = "sent" /\ delReq'[c].stage # "sent")
            => /\ db' = db
               /\ delReq'[c].status = Rejection(delReq[c])
               /\ delReq'[c].stage = IF Rejection(delReq[c]) = 0 THEN "found" ELSE "done"]_vars
    /\ [][db' # db
            => \E c \in Conns :
                  /\ delReq'[c].status = 200 /\ delReq[c].status = 0
                  /\ delReq[c].userId = AuthorOf(delReq[c].postId)
                  /\ Includes(db, delReq[c].postId)
                  /\ ~Includes(db', delReq[c].postId)
                  /\ \A id \in DeleteIds \ {delReq[c].postId} :
                        Includes(db', id) = Includes(db, id)]_vars

\* a user who is not the author was refused and the post stayed; the
\* author's request then deleted it
C25_Witness ==
    \E c, d \in Conns :
        /\ delReq[c].status = 403 /\ delReq[c].postId = ItemPost
        /\ delReq[d].status = 200 /\ delReq[d].postId = ItemPost
        /\ delReq[d].userId = Str("u1")
        /\ ~Includes(db, ItemPost)

(***************************************************************************)
(* Properties of the like handler                                          *)
(***************************************************************************)
\* the step in which a like request of the PostItem of c is sent
ClickStep(c) == likeReq'[c].stage = "sent" /\ likeReq'[c].id # likeReq[c].id

\* C26: handleLikeClick sends nothing while isLoadingLike is true or no
\* user is logged in; a request is sent only when none of the PostItem is
\* in flight, and one is in flight exactly while isLoadingLike is true; the
\* continuation of a request, successful or failed, resets isLoadingLike.
C26_OneLikeInFlight ==
    /\ [](\A c \in Conns :
            (item[c].isLoadingLike \/ ~Truthy(UserOf[c])) => ~ENABLED LikeClick(c))
    /\ [](\A c \in Conns : item[c].isLoadingLike <=> likeReq[c].stage # "idle")
    /\ [][\A c \in Conns :
            ClickStep(c)
            => likeReq[c].stage = "idle" /\ ~item[c].isLoadingLike
                 /\ item'[c].isLoadingLike]_vars
    /\ [][\A c \in Conns :
            (likeReq[c].stage = "done" /\ likeReq'[c].stage = "idle")
            => ~item'[c].isLoadingLike]_vars

\* of two requests one failed and the other succeeded, no request is in
\* flight, and a logged-out client was given the relay
C26_Witness ==
    /\ clicks = 2
    /\ \A c \in Conns : likeReq[c].stage = "idle" /\ ~item[c].isLoadingLike
    /\ \E c \in Emitters :
          /\ dbLikes = <<UserOf[c]>>
          /\ item[c].likeCount = 1
          /\ \A d \in Emitters \ {c} : received[d] # <<>> /\ item[d].likeCount = 1
    /\ emitted = 1
    /\ \E d \in Conns : ~Truthy(UserOf[d]) /\ item[d].likeCount = 1 /\ ~item[d].isLiked

CallStep(c) == dbCall'[c] # dbCall[c] /\ dbCall[c].stage # "waiting"

\* C28: mongoose.connect is called only when no promise is cached and no
\* connection is established, so every call that awaits awaits the one
\* pending attempt; when the attempt is rejected the cached promise is
\* cleared and every call that awaited it throws, and the next call makes
\* a new attempt.
C28_SingleConnectAttempt ==
    /\ [](\A c \in Conns :
            dbCall[c].stage = "waiting"
            => cached.promise = "pending" /\ dbCall[c].attempt = cached.made)
    /\ [](cached.made - cached.failed
            = (IF cached.promise = "null" THEN 0 ELSE 1))
    /\ [][cached'.made # cached.made
            => /\ cached'.made = cached.made + 1
               /\ cached.promise = "null" /\ ~cached.conn]_vars
    /\ [][cached'.failed # cached.failed
            => /\ cached'.promise = "null" /\ ~cached'.conn
               /\ \E c \in Conns : dbCall[c].stage = "waiting"
               /\ \A c \in Conns :
                     dbCall[c].stage = "waiting" => dbCall'[c].stage = "thrown"]_vars
    /\ [][\A c \in Conns :
            (CallStep(c) /\ cached.promise = "null" /\ ~cached.conn)
            => cached'.made = cached.made + 1 /\ cached'.promise = "pending"
                 /\ dbCall'[c] = [stage |-> "waiting", attempt |-> cached'.made]]_vars

\* two calls shared the first attempt and threw when it was rejected; a
\* later call made the second attempt and returned its connection
C28_Witness ==
    /\ cached.made = 2
    /\ cached.failed = 1
    /\ cached.conn
    /\ \E c, d, e \in Conns :
          /\ c # d
          /\ dbCall[c] = [stage |-> "thrown", attempt |-> 1]
          /\ dbCall[d] = [stage |-> "thrown", attempt |-> 1]
          /\ dbCall[e] = [stage |-> "returned", attempt |-> 2]

====
